---- MODULE Spec2Model ----
(***************************************************************************)
(* Telemetry dispatchers of src/util/mapbox.js: MapLoadEvent (one event    *)
(* per map id) and TurnstileEvent (one event per calendar day), with the   *)
(* configuration, the clock, localStorage and the HTTP transport they      *)
(* share.                                                                  *)
(***************************************************************************)
EXTENDS Integers, Sequences, FiniteSets, TLC

\* ------------------------------------------------------------------ bounds
MaxQueue == 2
MaxTime == 3

\* ------------------------------------------------------- program constants
\* 24 * 60 * 60 * 1000 ms, in clock ticks
TicksPerDay == 2
\* getDate() is the day of the month
DaysInMonth == 31

\* ------------------------------------------------------------------ values
\* config.ACCESS_TOKEN; "" stands for the falsy values (null, undefined, '')
NoToken == ""
Tokens == {NoToken, "pk.a", "pk.b"}

\* anonId: 0 is null/undefined, BadId a string that is not a UUID
NoId == 0
BadId == -1
Uuids == {1, 2}
\* what uuid() returns: a UUID that no storage held when the page loaded
NewUuids == {2}

MapIds == {0, 1}

\* this.eventData; obj = FALSE is a value that is not an object (null)
EventData(a, l, t) == [obj |-> TRUE, anonId |-> a, lastSuccess |-> l, accessToken |-> t]
NullData == [obj |-> FALSE, anonId |-> NoId, lastSuccess |-> 0, accessToken |-> NoToken]

\* util.validateUuid: false for null and for a string that is no UUID
validateUuid(str) == str \in Uuids

\* what localStorage holds under a key
Absent == [kind |-> "absent", data |-> NullData]
Garbage == [kind |-> "garbage", data |-> NullData]
JSONstringify(value) == [kind |-> "json", data |-> value]
\* JSON.parse throws a SyntaxError on text that is not JSON
JSONparseThrows(text) == text.kind # "json"
JSONparse(text) == text.data

\* Date.prototype.getDate of a timestamp
getDate(t) == ((t \div TicksPerDay) % DaysInMonth) + 1

\* ------------------------------------------------------------ isMapboxHTTPURL
\* A URL is a sequence of lexemes; "/", "?", ":", "." are the separators.
toLowerCase(c) == IF c = "MAPBOX" THEN "mapbox" ELSE IF c = "COM" THEN "com" ELSE c

\* ([^\/]+\.)? matches url[i..j-1]
SubdomainMatch(url, i, j) ==
    \/ j = i
    \/ /\ j >= i + 2
       /\ url[j - 1] = "."
       /\ \A k \in i..(j - 2) : url[k] # "/"

\* mapbox\.c(n|om)(\/|\?|$) matches at j
DomainMatch(url, j) ==
    /\ j + 2 <= Len(url)
    /\ toLowerCase(url[j]) = "mapbox"
    /\ url[j + 1] = "."
    /\ toLowerCase(url[j + 2]) \in {"com", "cn"}
    /\ (j + 3 > Len(url) \/ url[j + 3] \in {"/", "?"})

\* ((https?:)?\/\/)? ends before i
SchemeMatch(url, i) ==
    \/ i = 1
    \/ i = 3 /\ Len(url) >= 2 /\ url[1] = "/" /\ url[2] = "/"
    \/ /\ i = 5 /\ Len(url) >= 4
       /\ toLowerCase(url[1]) \in {"http", "https"}
       /\ url[2] = ":" /\ url[3] = "/" /\ url[4] = "/"

isMapboxHTTPURL(url) ==
    \E i \in 1..(Len(url) + 1) : \E j \in i..(Len(url) + 1) :
        SchemeMatch(url, i) /\ SubdomainMatch(url, i, j) /\ DomainMatch(url, j)

\* ------------------------------------------------------- parseUrl, formatUrl
\* urlRe = /^(\w+):\/\/([^/?]*)(\/[^?]+)?\??(.+)?/ on lexeme sequences
Separators == {"/", "?", ":", ".", "&"}

\* where a run of lexemes outside stop, starting at from, ends
RunEnd(url, from, stop) ==
    CHOOSE k \in from..(Len(url) + 1) :
        /\ k = Len(url) + 1 \/ url[k] \in stop
        /\ \A j \in from..(k - 1) : url[j] \notin stop

\* params.split('&')
RECURSIVE split(_)
split(str) ==
    IF \A k \in 1..Len(str) : str[k] # "&"
    THEN <<str>>
    ELSE LET k == RunEnd(str, 1, {"&"}) IN
         <<SubSeq(str, 1, k - 1)>> \o split(SubSeq(str, k + 1, Len(str)))

\* params.join('&')
RECURSIVE join(_)
join(params) ==
    IF Len(params) = 0 THEN <<>>
    ELSE IF Len(params) = 1 THEN params[1]
    ELSE params[1] \o <<"&">> \o join(Tail(params))

\* url.match(urlRe) is not null
urlReMatches(url) ==
    /\ Len(url) >= 4
    /\ url[1] \notin Separators
    /\ url[2] = ":" /\ url[3] = "/" /\ url[4] = "/"

\* parseUrl of a url that urlRe matches
parseUrl(url) ==
    LET authorityEnd == RunEnd(url, 5, {"/", "?"})
        hasPath == /\ authorityEnd + 1 <= Len(url)
                   /\ url[authorityEnd] = "/"
                   /\ url[authorityEnd + 1] # "?"
        pathEnd == IF hasPath THEN RunEnd(url, authorityEnd + 2, {"?"}) ELSE authorityEnd
        rest == IF pathEnd <= Len(url) /\ url[pathEnd] = "?" THEN pathEnd + 1 ELSE pathEnd
    IN
    [protocol |-> url[1],
     authority |-> SubSeq(url, 5, authorityEnd - 1),
     path |-> IF hasPath THEN SubSeq(url, authorityEnd, pathEnd - 1) ELSE <<"/">>,
     params |-> IF rest <= Len(url) THEN split(SubSeq(url, rest, Len(url))) ELSE <<>>]

\* formatUrl that leaves the params out
formatUrlNoParams(obj) ==
    <<obj.protocol, ":", "/", "/">> \o obj.authority \o obj.path

formatUrl(obj) ==
    <<obj.protocol, ":", "/", "/">> \o obj.authority \o obj.path
        \o (IF Len(obj.params) > 0 THEN <<"?">> \o join(obj.params) ELSE <<>>)

\* ---------------------------------------------------------------- makeAPIURL
SecretToken == "sk.a"

\* accessToken[0]
CharAt0(accessToken) ==
    IF accessToken = SecretToken THEN "s"
    ELSE IF accessToken = NoToken THEN "" ELSE "p"

\* config.API_URL
ApiUrls ==
    {<<"https", ":", "/", "/", "api", ".", "mapbox", ".", "com">>,
     <<"https", ":", "/", "/", "api", ".", "mapbox", ".", "cn", "/", "v1">>}

\* What a URL function did: error = "" when it returned url.
UrlResult(error, url) == [error |-> error, url |-> url]

\* EffectiveToken that ignores the accessToken argument
EffectiveTokenConfigOnly(accessToken, configToken) == configToken

\* accessToken || config.ACCESS_TOKEN
EffectiveToken(accessToken, configToken) ==
    IF accessToken # NoToken THEN accessToken ELSE configToken

\* makeAPIURL(urlObject, accessToken) under config.API_URL,
\* config.REQUIRE_ACCESS_TOKEN and configToken = config.ACCESS_TOKEN
makeAPIURL(urlObject, accessToken, API_URL, REQUIRE_ACCESS_TOKEN, configToken) ==
    LET apiUrlObject == parseUrl(API_URL)
        rewritten == [urlObject EXCEPT
                         !.protocol = apiUrlObject.protocol,
                         !.authority = apiUrlObject.authority,
                         !.path = IF apiUrlObject.path # <<"/">>
                                  THEN apiUrlObject.path \o @
                                  ELSE @]
        token == EffectiveToken(accessToken, configToken)
    IN
    IF ~REQUIRE_ACCESS_TOKEN THEN UrlResult("", formatUrl(rewritten))
    ELSE IF token = NoToken THEN UrlResult("An API access token is required", <<>>)
    ELSE IF CharAt0(token) = "s" THEN UrlResult("Use a public access token", <<>>)
    ELSE UrlResult("", formatUrl([rewritten EXCEPT
                                     !.params = Append(@, <<"access_token=", token>>)]))

\* the last call of a URL function
UrlCall(op, input, accessToken, API_URL, REQUIRE_ACCESS_TOKEN, result) ==
    [op |-> op, input |-> input, accessToken |-> accessToken, API_URL |-> API_URL,
     REQUIRE_ACCESS_TOKEN |-> REQUIRE_ACCESS_TOKEN, result |-> result]

NoCall == UrlCall("none", <<>>, NoToken, <<>>, FALSE, UrlResult("", <<>>))

\* -------------------------------------------------------------------- state
VARIABLES
    ACCESS_TOKEN,       \* config.ACCESS_TOKEN
    now,                \* Date.now()
    localStorage,       \* window.localStorage, by the token of the storage key
    storageAvailable,   \* storageAvailable('localStorage'), and no access throws
    mapLoadEvent_,      \* [eventData, queue, pendingRequest, success]
    turnstileEvent_,    \* [eventData, queue, pendingRequest]
    mapLoadPosts,       \* postData requests of mapLoadEvent_ not yet completed
    turnstilePosts,     \* postData requests of turnstileEvent_ not yet completed
    last,               \* the handler that ran last: its inputs and decisions
    history,            \* what has been delivered or has failed so far
    urlCall             \* the last call of a URL function: arguments and result

vars == <<ACCESS_TOKEN, now, localStorage, storageAvailable, mapLoadEvent_, turnstileEvent_,
          mapLoadPosts, turnstilePosts, last, history, urlCall>>

\* ---------------------------------------------------------- TelemetryEvent
\* fetchEventData: the new this.eventData, read from storage. available: storageAvailable() is
\* true and getItem does not throw.
fetchEventData(eventData, storage, available) ==
    LET data == storage[ACCESS_TOKEN] IN
    IF available /\ data.kind # "absent" /\ ~JSONparseThrows(data)
    THEN JSONparse(data)
    ELSE eventData

\* saveEventData with a storage key that leaves config.ACCESS_TOKEN out
saveEventDataNoToken(eventData, storage, available) ==
    IF available
    THEN [storage EXCEPT ![NoToken] = JSONstringify(eventData)]
    ELSE storage

\* saveEventData: storage after the write. available: storageAvailable() is true
\* and setItem does not throw.
saveEventData(eventData, storage, available) ==
    IF available
    THEN [storage EXCEPT ![ACCESS_TOKEN] = JSONstringify(eventData)]
    ELSE storage

\* What one call of processRequests did: the dispatcher after it, the requests
\* handed to postData, whether a TypeError escaped, the entries it considered.
Outcome(self, posted, threw, log) ==
    [self |-> self, posted |-> posted, threw |-> threw, log |-> log]

Considered(id, timestamp, decision) ==
    [id |-> id, timestamp |-> timestamp, decision |-> decision]

\* Busy without the test of the in-flight slot
BusyQueueOnly(self) == Len(self.queue) = 0

\* the first test of both processRequests: nothing to do now
Busy(self) == self.pendingRequest \/ Len(self.queue) = 0

\* Shift as this.queue.pop()
ShiftFromEnd(queue) ==
    [entry |-> queue[Len(queue)], rest |-> SubSeq(queue, 1, Len(queue) - 1)]

\* this.queue.shift()
Shift(queue) == [entry |-> Head(queue), rest |-> Tail(queue)]

\* WithAnonId without the validation
WithAnonIdUnchecked(eventData, uuid) == eventData

\* if (!validateUuid(this.eventData.anonId)) this.eventData.anonId = uuid()
WithAnonId(eventData, uuid) ==
    IF ~validateUuid(eventData.anonId)
    THEN [eventData EXCEPT !.anonId = uuid]
    ELSE eventData

\* Resumes that ignores the error
ResumesAlways(error) == TRUE

\* if (!error) in the callbacks given to postData
Resumes(error) == ~error

\* ------------------------------------------------------------ MapLoadEvent
\* AlreadyLoaded without the look into this.success
AlreadyLoadedNever(self, id) == FALSE

\* "Only one load event should fire per map"
AlreadyLoaded(self, id) == id # 0 /\ self.success[id]

\* MapLoadNeedsFetch that reads the storage for every entry
MapLoadNeedsFetchAlways(eventData) == TRUE

\* if (!this.eventData.anonId) in MapLoadEvent.processRequests
MapLoadNeedsFetch(eventData) == eventData.anonId = NoId

\* DuplicateReturn that tests this.success before the entry is shifted
DuplicateReturnUnshifted(self, shifted, entry) ==
    Outcome(self, <<>>, FALSE, <<Considered(entry.id, entry.timestamp, "duplicate")>>)

\* the return of `if (id && this.success[id]) return`, the entry shifted
DuplicateReturn(self, shifted, entry) ==
    Outcome(shifted, <<>>, FALSE, <<Considered(entry.id, entry.timestamp, "duplicate")>>)

\* MapLoadEvent.processRequests; uuid is what uuid() returns if called.
MapLoadProcessRequests(self, storage, uuid, available) ==
    IF Busy(self)
    THEN Outcome(self, <<>>, FALSE, <<>>)
    ELSE
    LET entry == Shift(self.queue).entry
        shifted == [self EXCEPT !.queue = Shift(self.queue).rest]
    IN
    IF AlreadyLoaded(self, entry.id)
    THEN DuplicateReturn(self, shifted, entry)
    ELSE IF ~self.eventData.obj
    THEN Outcome(shifted, <<>>, TRUE, <<Considered(entry.id, entry.timestamp, "threw")>>)
    ELSE
    LET fetched == IF MapLoadNeedsFetch(self.eventData)
                   THEN fetchEventData(self.eventData, storage, available)
                   ELSE self.eventData
    IN
    IF ~fetched.obj
    THEN Outcome([shifted EXCEPT !.eventData = fetched], <<>>, TRUE,
                 <<Considered(entry.id, entry.timestamp, "threw")>>)
    ELSE
    LET eventData == WithAnonId(fetched, uuid)
        request == [id |-> entry.id, userId |-> eventData.anonId,
                    access_token |-> ACCESS_TOKEN]
    IN
    Outcome([shifted EXCEPT !.eventData = eventData, !.pendingRequest = TRUE],
            <<request>>, FALSE,
            <<Considered(entry.id, entry.timestamp, "sent")>>)

\* ---------------------------------------------------------- TurnstileEvent
\* TurnstileDue by the elapsed time alone
TurnstileDueElapsed(dueForEvent, lastSuccess, nextUpdate) ==
    IF lastSuccess # 0
    THEN dueForEvent \/ nextUpdate - lastSuccess >= TicksPerDay
    ELSE dueForEvent

\* "Record turnstile event once per calendar day": dueForEvent after the
\* comparison of the entry with eventData.lastSuccess.
TurnstileDue(dueForEvent, lastSuccess, nextUpdate) ==
    IF lastSuccess # 0
    THEN \/ dueForEvent
         \/ nextUpdate - lastSuccess >= TicksPerDay
         \/ nextUpdate - lastSuccess < -TicksPerDay
         \/ getDate(lastSuccess) # getDate(nextUpdate)
    ELSE dueForEvent

\* One pass through TurnstileEvent.processRequests, up to the recursive call
\* (again = TRUE) or the return.
TurnstileConsider(self, storage, uuid, available) ==
    IF Busy(self)
    THEN [again |-> FALSE, out |-> Outcome(self, <<>>, FALSE, <<>>)]
    ELSE IF ~self.eventData.obj
    THEN [again |-> FALSE, out |-> Outcome(self, <<>>, TRUE, <<>>)]
    ELSE
    LET changed == IF self.eventData.accessToken # NoToken
                   THEN self.eventData.accessToken # ACCESS_TOKEN
                   ELSE FALSE
        reset == IF changed
                 THEN [self.eventData EXCEPT !.anonId = NoId, !.lastSuccess = 0]
                 ELSE self.eventData
        fetched == IF reset.anonId = NoId \/ reset.lastSuccess = 0
                   THEN fetchEventData(reset, storage, available)
                   ELSE reset
    IN
    IF ~fetched.obj
    THEN [again |-> FALSE,
          out |-> Outcome([self EXCEPT !.eventData = fetched], <<>>, TRUE, <<>>)]
    ELSE
    LET valid == validateUuid(fetched.anonId)
        eventData == WithAnonId(fetched, uuid)
        nextUpdate == Shift(self.queue).entry
        dueForEvent == TurnstileDue(changed \/ ~valid, eventData.lastSuccess, nextUpdate)
        shifted == [self EXCEPT !.eventData = eventData, !.queue = Shift(self.queue).rest]
        request == [nextUpdate |-> nextUpdate, userId |-> eventData.anonId,
                    access_token |-> ACCESS_TOKEN]
    IN
    IF ~dueForEvent
    THEN [again |-> TRUE,
          out |-> Outcome(shifted, <<>>, FALSE, <<Considered(0, nextUpdate, "skipped")>>)]
    ELSE [again |-> FALSE,
          out |-> Outcome([shifted EXCEPT !.pendingRequest = TRUE], <<request>>, FALSE,
                          <<Considered(0, nextUpdate, "sent")>>)]

\* TurnstileProcessRequests that returns after a skipped entry
TurnstileProcessOnce(self, storage, uuid, available) ==
    TurnstileConsider(self, storage, uuid, available).out

\* TurnstileEvent.processRequests, with its recursion on a skipped entry
RECURSIVE TurnstileProcessRequests(_, _, _, _)
TurnstileProcessRequests(self, storage, uuid, available) ==
    LET first == TurnstileConsider(self, storage, uuid, available) IN
    IF first.again
    THEN LET rest == TurnstileProcessRequests(first.out.self, storage, uuid, available) IN
         Outcome(rest.self, rest.posted, rest.threw, first.out.log \o rest.log)
    ELSE first.out

\* ------------------------------------------------------------------ inputs
\* tileUrls arguments of the two report functions
UrlCn == <<"/", "/", "a", ".", "tiles", ".", "MAPBOX", ".", "cn", "?", "q">>
UrlEvil == <<"https", ":", "/", "/", "evil", ".", "com", "/", "mapbox", ".", "com">>
UrlScheme == <<"mapbox", ":", "/", "/", "mapbox", ".", "streets">>
NotAnArray == [isArray |-> FALSE, urls |-> <<>>]
Array(urls) == [isArray |-> TRUE, urls |-> urls]
TileUrlInputs == {NotAnArray, Array(<<UrlEvil, UrlScheme>>), Array(<<UrlEvil, UrlCn>>)}

\* tileUrls.some(url => isMapboxHTTPURL(url)), for each input
SomeMapboxHTTPURL ==
    [tileUrls \in TileUrlInputs |->
        \E k \in 1..Len(tileUrls.urls) : isMapboxHTTPURL(tileUrls.urls[k])]

\* TelemetryEnabled without the test of config.ACCESS_TOKEN
TelemetryEnabledAnyToken(tileUrls) ==
    tileUrls.isArray /\ SomeMapboxHTTPURL[tileUrls]

\* the condition of postMapLoadEvent and postTurnstileEvent
TelemetryEnabled(tileUrls) ==
    /\ ACCESS_TOKEN # NoToken
    /\ tileUrls.isArray
    /\ SomeMapboxHTTPURL[tileUrls]

\* what localStorage may hold under a key when the page loads
StoredAtLoad ==
    {Absent, Garbage, JSONstringify(NullData),
     JSONstringify(EventData(BadId, 0, NoToken)),
     JSONstringify(EventData(1, 1, "pk.a"))}

\* -------------------------------------------------------------------- ghost
Last(op, tileUrls, error, outcome) ==
    [op |-> op, tileUrls |-> tileUrls, error |-> error,
     threw |-> outcome.threw, log |-> outcome.log]

Nothing(self) == Outcome(self, <<>>, FALSE, <<>>)

\* --------------------------------------------------------------------- Init
\* The state when the module has been loaded: both singletons constructed.
Init ==
    /\ ACCESS_TOKEN \in {NoToken, "pk.a"}
    /\ now = 1
    /\ storageAvailable \in BOOLEAN
    /\ \E stored \in StoredAtLoad :
           localStorage = [t \in Tokens |-> IF t = "pk.a" THEN stored ELSE Absent]
    /\ mapLoadEvent_ = [eventData |-> EventData(NoId, 0, ACCESS_TOKEN), queue |-> <<>>,
                        pendingRequest |-> FALSE, success |-> [id \in MapIds |-> FALSE]]
    /\ turnstileEvent_ = [eventData |-> EventData(NoId, 0, ACCESS_TOKEN), queue |-> <<>>,
                          pendingRequest |-> FALSE]
    /\ mapLoadPosts = <<>>
    /\ turnstilePosts = <<>>
    /\ last = Last("load", NotAnArray, FALSE, Nothing(mapLoadEvent_))
    /\ history = [delivered |-> [id \in MapIds |-> 0], tsOK |-> 0, tsFailed |-> FALSE,
                  tsReportToken |-> "-"]
    /\ urlCall = NoCall

\* ------------------------------------------------------------ environment
\* The application sets config.ACCESS_TOKEN.
SetAccessToken(t) ==
    /\ t # NoToken
    /\ t # ACCESS_TOKEN
    /\ ACCESS_TOKEN' = t
    /\ last' = Last("environment", NotAnArray, FALSE, Nothing(mapLoadEvent_))
    /\ history' = [history EXCEPT !.tsOK = 0]
    /\ UNCHANGED <<now, storageAvailable, localStorage, mapLoadEvent_, turnstileEvent_,
                   mapLoadPosts, turnstilePosts, urlCall>>

\* Time passes.
Tick ==
    /\ now < MaxTime
    /\ now' = now + 1
    /\ last' = Last("environment", NotAnArray, FALSE, Nothing(mapLoadEvent_))
    /\ UNCHANGED <<ACCESS_TOKEN, storageAvailable, localStorage, mapLoadEvent_, turnstileEvent_,
                   mapLoadPosts, turnstilePosts, history, urlCall>>

\* ---------------------------------------------------------------- MapLoadEvent
\* TelemetryEvent.queueRequest of mapLoadEvent_
MapLoadQueueRequest(self, date, storage, uuid, available) ==
    MapLoadProcessRequests([self EXCEPT !.queue = Append(self.queue, date)],
                           storage, uuid, available)

\* postMapLoadEvent(tileUrls, mapId)
PostMapLoadEvent(tileUrls, mapId, uuid) ==
    \E outcome \in {IF TelemetryEnabled(tileUrls)
                     THEN MapLoadQueueRequest(mapLoadEvent_, [id |-> mapId, timestamp |-> now],
                                              localStorage, uuid, storageAvailable)
                     ELSE Nothing(mapLoadEvent_)} :
    /\ TelemetryEnabled(tileUrls) => Len(mapLoadEvent_.queue) < MaxQueue
    /\ mapLoadEvent_' = outcome.self
    /\ mapLoadPosts' = mapLoadPosts \o outcome.posted
    /\ last' = Last("postMapLoadEvent", tileUrls, FALSE, outcome)
    /\ UNCHANGED <<ACCESS_TOKEN, now, storageAvailable, localStorage, turnstileEvent_, turnstilePosts,
                   history, urlCall>>

\* The callback given to postData by MapLoadEvent.processRequests, for the
\* i-th request still with the transport.
MapLoadCallback(self, storage, id, error, uuid, available) ==
    LET cleared == [self EXCEPT !.pendingRequest = FALSE] IN
    IF ~Resumes(error)
    THEN [storage |-> storage, outcome |-> Nothing(cleared)]
    ELSE
    LET marked == IF id # 0
                  THEN [cleared EXCEPT !.success[id] = TRUE]
                  ELSE cleared
        saved == saveEventData(marked.eventData, storage, available)
    IN
    [storage |-> saved, outcome |-> MapLoadProcessRequests(marked, saved, uuid, available)]

MapLoadDone(i, error, uuid) ==
    /\ i \in 1..Len(mapLoadPosts)
    /\ LET request == mapLoadPosts[i]
           rest == SubSeq(mapLoadPosts, 1, i - 1) \o SubSeq(mapLoadPosts, i + 1, Len(mapLoadPosts))
       IN
       \E done \in {MapLoadCallback(mapLoadEvent_, localStorage, request.id, error, uuid,
                                    storageAvailable)} :
       /\ mapLoadEvent_' = done.outcome.self
       /\ localStorage' = done.storage
       /\ mapLoadPosts' = rest \o done.outcome.posted
       /\ last' = Last("mapLoadDone", NotAnArray, error, done.outcome)
       /\ history' = IF error THEN history
                     ELSE [history EXCEPT !.delivered[request.id] =
                               IF @ < 2 THEN @ + 1 ELSE @]
    /\ UNCHANGED <<ACCESS_TOKEN, now, storageAvailable, turnstileEvent_, turnstilePosts, urlCall>>

\* -------------------------------------------------------------- TurnstileEvent
\* TelemetryEvent.queueRequest of turnstileEvent_
TurnstileQueueRequest(self, date, storage, uuid, available) ==
    TurnstileProcessRequests([self EXCEPT !.queue = Append(self.queue, date)],
                             storage, uuid, available)

\* postTurnstileEvent(tileUrls)
PostTurnstileEvent(tileUrls, uuid) ==
    \E outcome \in {IF TelemetryEnabled(tileUrls)
                     THEN TurnstileQueueRequest(turnstileEvent_, now, localStorage, uuid, storageAvailable)
                     ELSE Nothing(turnstileEvent_)} :
    /\ TelemetryEnabled(tileUrls) => Len(turnstileEvent_.queue) < MaxQueue
    /\ turnstileEvent_' = outcome.self
    /\ turnstilePosts' = turnstilePosts \o outcome.posted
    /\ last' = Last("postTurnstileEvent", tileUrls, FALSE, outcome)
    /\ history' = IF TelemetryEnabled(tileUrls)
                  THEN [history EXCEPT !.tsReportToken = ACCESS_TOKEN,
                                       !.tsFailed = @ /\ outcome.posted = <<>>]
                  ELSE history
    /\ UNCHANGED <<ACCESS_TOKEN, now, storageAvailable, localStorage, mapLoadEvent_, mapLoadPosts, urlCall>>

\* The callback given to postData by TurnstileEvent.processRequests
TurnstileCallback(self, storage, nextUpdate, error, uuid, available) ==
    LET cleared == [self EXCEPT !.pendingRequest = FALSE] IN
    IF ~Resumes(error)
    THEN [storage |-> storage, outcome |-> Nothing(cleared)]
    ELSE
    LET updated == [cleared EXCEPT !.eventData.lastSuccess = nextUpdate,
                                   !.eventData.accessToken = ACCESS_TOKEN]
        saved == saveEventData(updated.eventData, storage, available)
    IN
    [storage |-> saved, outcome |-> TurnstileProcessRequests(updated, saved, uuid, available)]

TurnstileDone(i, error, uuid) ==
    /\ i \in 1..Len(turnstilePosts)
    /\ LET request == turnstilePosts[i]
           rest == SubSeq(turnstilePosts, 1, i - 1)
                       \o SubSeq(turnstilePosts, i + 1, Len(turnstilePosts))
       IN
       \E done \in {TurnstileCallback(turnstileEvent_, localStorage, request.nextUpdate,
                                      error, uuid, storageAvailable)} :
       /\ turnstileEvent_' = done.outcome.self
       /\ localStorage' = done.storage
       /\ turnstilePosts' = rest \o done.outcome.posted
       /\ last' = Last("turnstileDone", NotAnArray, error, done.outcome)
       /\ history' = IF error
                     THEN [history EXCEPT !.tsFailed = TRUE]
                     ELSE [history EXCEPT !.tsOK = request.nextUpdate, !.tsFailed = FALSE]
    /\ UNCHANGED <<ACCESS_TOKEN, now, storageAvailable, mapLoadEvent_, mapLoadPosts, urlCall>>

\* ------------------------------------------------------------ URL functions
\* the urls given to parseUrl: protocol://authority, then a path or none, then
\* a query or none
UrlAuthorities == {<<>>, <<"a", ".", "com">>}
UrlPaths == {<<>>, <<"/">>, <<"/", "p">>, <<"/", "p", "/", "q", ".", "png">>}
UrlQueries == {<<>>, <<"?">>, <<"?", "x">>, <<"?", "x", "&", "y">>, <<"?", "&">>}
UrlInputs ==
    {<<"http", ":", "/", "/">> \o a \o p \o q :
        a \in UrlAuthorities, p \in UrlPaths, q \in UrlQueries}
        \cup {<<"a", ".", "com", "/", "p">>, <<"/", "/", "a", ".", "com">>}

\* the mapbox: urls the normalize functions hand to makeAPIURL
MapboxUrlInputs ==
    {UrlScheme, <<"mapbox", ":", "/", "/", "styles", "/", "mapbox", "/", "dark", "?", "fresh">>}

UrlTokens == Tokens \cup {SecretToken}

\* makeAPIURL(parseUrl(url), accessToken), as the normalize functions call it
MakeAPIURL(url, accessToken, API_URL, REQUIRE_ACCESS_TOKEN) ==
    /\ urlCall' = UrlCall("makeAPIURL", url, accessToken, API_URL, REQUIRE_ACCESS_TOKEN,
                          makeAPIURL(parseUrl(url), accessToken, API_URL,
                                     REQUIRE_ACCESS_TOKEN, ACCESS_TOKEN))
    /\ UNCHANGED <<ACCESS_TOKEN, now, storageAvailable, localStorage, mapLoadEvent_,
                   turnstileEvent_, mapLoadPosts, turnstilePosts, last, history>>

\* formatUrl(parseUrl(url)), no field changed in between
FormatParsedUrl(url) ==
    /\ urlCall' = UrlCall("formatUrl", url, NoToken, <<>>, FALSE,
                          IF urlReMatches(url)
                          THEN UrlResult("", formatUrl(parseUrl(url)))
                          ELSE UrlResult("Unable to parse URL object", <<>>))
    /\ UNCHANGED <<ACCESS_TOKEN, now, storageAvailable, localStorage, mapLoadEvent_,
                   turnstileEvent_, mapLoadPosts, turnstilePosts, last, history>>

\* The URL functions, under every configuration.
UrlNext ==
    \/ \E t \in UrlTokens : SetAccessToken(t)
    \/ \E url \in MapboxUrlInputs, accessToken \in UrlTokens, API_URL \in ApiUrls,
          REQUIRE_ACCESS_TOKEN \in BOOLEAN :
           MakeAPIURL(url, accessToken, API_URL, REQUIRE_ACCESS_TOKEN)
    \/ \E url \in UrlInputs : FormatParsedUrl(url)

SpecUrl == Init /\ [][UrlNext]_vars

\* --------------------------------------------------------------------- Next
Environment == (\E t \in Tokens : SetAccessToken(t)) \/ Tick

MapLoadOperation ==
    \/ \E tileUrls \in TileUrlInputs, mapId \in MapIds, uuid \in NewUuids :
           PostMapLoadEvent(tileUrls, mapId, uuid)
    \/ \E i \in 1..MaxQueue, error \in BOOLEAN, uuid \in NewUuids :
           MapLoadDone(i, error, uuid)

TurnstileOperation ==
    \/ \E tileUrls \in TileUrlInputs, uuid \in NewUuids :
           PostTurnstileEvent(tileUrls, uuid)
    \/ \E i \in 1..MaxQueue, error \in BOOLEAN, uuid \in NewUuids :
           TurnstileDone(i, error, uuid)

\* a dispatcher nothing has been queued on yet
Unused(self) ==
    /\ self.queue = <<>>
    /\ ~self.pendingRequest
    /\ self.eventData.obj
    /\ self.eventData.anonId = NoId

\* Every interleaving of the two dispatchers.
Next == Environment \/ MapLoadOperation \/ TurnstileOperation

SpecBoth == Init /\ [][Next]_vars

\* The runs of a page that reports to one of the two dispatchers only. The
\* clock stands still once a map load has been reported: the timestamp of a
\* map load entry enters no decision of MapLoadEvent.
OneDispatcherNext ==
    \/ \E t \in Tokens : SetAccessToken(t)
    \/ Unused(mapLoadEvent_) /\ Tick
    \/ Unused(turnstileEvent_) /\ MapLoadOperation
    \/ Unused(mapLoadEvent_) /\ TurnstileOperation

Spec == Init /\ [][OneDispatcherNext]_vars

\* The runs that report map loads only, and those that report usage only.
MapLoadNext == (\E t \in Tokens : SetAccessToken(t)) \/ MapLoadOperation
TurnstileNext == Environment \/ TurnstileOperation

SpecMapLoad == Init /\ [][MapLoadNext]_vars
SpecTurnstile == Init /\ [][TurnstileNext]_vars

\* The runs in which both dispatchers are used, every interleaving of them,
\* for a page whose sources use mapbox tiles, whose clock stands still and
\* whose access token is set before the first usage report.
SharedNext ==
    \/ \E t \in Tokens : Unused(turnstileEvent_) /\ SetAccessToken(t)
    \/ \E mapId \in MapIds, uuid \in NewUuids :
           PostMapLoadEvent(Array(<<UrlEvil, UrlCn>>), mapId, uuid)
    \/ \E error \in BOOLEAN, uuid \in NewUuids : MapLoadDone(1, error, uuid)
    \/ \E uuid \in NewUuids : PostTurnstileEvent(Array(<<UrlEvil, UrlCn>>), uuid)
    \/ \E error \in BOOLEAN, uuid \in NewUuids : TurnstileDone(1, error, uuid)

SpecShared == Init /\ [][SharedNext]_vars

\* ------------------------------------------------------------------ claims
MapLoadHandlers == {"postMapLoadEvent", "mapLoadDone"}
TurnstileHandlers == {"postTurnstileEvent", "turnstileDone"}
Reports == {"postMapLoadEvent", "postTurnstileEvent"}

\* the calendar day of a timestamp
Day(t) == t \div TicksPerDay

\* the inputs that name a first-party HTTP locator
FirstPartyInputs == {Array(<<UrlEvil, UrlCn>>)}

Decisions(log) == [k \in 1..Len(log) |-> log[k].decision]

\* C1: each dispatcher has at most one delivery request outstanding, and its
\* in-flight slot is occupied exactly while that request is outstanding.
C1_OneOutstandingRequest ==
    /\ Len(mapLoadPosts) <= 1
    /\ Len(turnstilePosts) <= 1
    /\ mapLoadEvent_.pendingRequest <=> mapLoadPosts # <<>>
    /\ turnstileEvent_.pendingRequest <=> turnstilePosts # <<>>

\* a report arrived while a request was outstanding, and was queued
C1_Witness ==
    /\ last.op = "postMapLoadEvent"
    /\ mapLoadPosts # <<>>
    /\ mapLoadEvent_.queue # <<>>

\* C2: no request is issued for an entry whose subjectId is marked in success,
\* and no request is outstanding for a marked subjectId.
C2_NoRequestAfterSuccess ==
    /\ last.op \in MapLoadHandlers =>
           \A k \in 1..Len(last.log) :
               last.log[k].decision = "sent" => ~mapLoadEvent_.success[last.log[k].id]
    /\ \A i \in 1..Len(mapLoadPosts) : ~mapLoadEvent_.success[mapLoadPosts[i].id]

\* a report of a subjectId that has succeeded was dropped without a request
C2_Witness ==
    /\ last.op = "postMapLoadEvent"
    /\ mapLoadEvent_.success[1]
    /\ Len(last.log) = 1
    /\ last.log[1].id = 1
    /\ last.log[1].decision = "duplicate"
    /\ mapLoadPosts = <<>>

\* C9: the userId of every request with the transport passes validateUuid.
C9_ValidUserId ==
    /\ \A i \in 1..Len(mapLoadPosts) : validateUuid(mapLoadPosts[i].userId)
    /\ \A i \in 1..Len(turnstilePosts) : validateUuid(turnstilePosts[i].userId)

\* a request went out after the stored state with an invalid id was loaded
C9_Witness ==
    /\ storageAvailable
    /\ localStorage[ACCESS_TOKEN] = JSONstringify(EventData(BadId, 0, NoToken))
    /\ last.op = "postMapLoadEvent"
    /\ mapLoadPosts # <<>>
    /\ mapLoadEvent_.eventData.anonId \in NewUuids

\* C10 as stated: no report raises an error to its caller, whatever the
\* storage holds.
C10_ReportNeverThrows == last.op \in Reports => ~last.threw

\* C3 as stated: when a subjectId is reported again while its first request
\* is in flight, the second entry waits in the queue and, once the first
\* delivery has succeeded, is dropped as a duplicate without a request, so
\* that the subjectId is delivered once.
C3_SecondReportDropped ==
    [][(/\ last'.op = "mapLoadDone"
        /\ ~last'.error
        /\ Len(mapLoadPosts) = 1
        /\ mapLoadEvent_.queue # <<>>
        /\ Head(mapLoadEvent_.queue).id = mapLoadPosts[1].id)
       => /\ Decisions(last'.log) = <<"duplicate">>
          /\ mapLoadPosts' = <<>>
          /\ history'.delivered[mapLoadPosts[1].id] = 1]_vars

\* C4: with a delivery of timestamp t on record and the access token not
\* changed since, an entry of the same calendar day is skipped and an entry
\* of the following calendar day is sent.
C4_OncePerCalendarDay ==
    (last.op \in TurnstileHandlers /\ history.tsOK # 0) =>
        \A k \in 1..Len(last.log) :
            /\ Day(last.log[k].timestamp) = Day(history.tsOK)
                   => last.log[k].decision = "skipped"
            /\ Day(last.log[k].timestamp) = Day(history.tsOK) + 1
                   => last.log[k].decision = "sent"

\* after a success an entry of the same day was skipped and one of the next
\* day, less than a day later, was sent
C4_Witness ==
    /\ last.op = "turnstileDone"
    /\ history.tsOK # 0
    /\ Len(last.log) = 2
    /\ last.log[1].decision = "skipped"
    /\ Day(last.log[1].timestamp) = Day(history.tsOK)
    /\ last.log[2].decision = "sent"
    /\ Day(last.log[2].timestamp) = Day(history.tsOK) + 1
    /\ last.log[2].timestamp - history.tsOK < TicksPerDay

\* the report's own entry was considered in the step: the queue is drained
\* and the last entry considered is the one just appended
OwnEntryConsidered ==
    /\ last'.op = "postTurnstileEvent"
    /\ last'.log # <<>>
    /\ turnstileEvent_'.queue = <<>>

OwnEntrySent == last'.log[Len(last'.log)].decision = "sent"

\* C5 as stated: when config.ACCESS_TOKEN differs from its value at the
\* previous report, the entry of the next report is sent.
C5_TokenChangeForcesDue ==
    [][(/\ history.tsReportToken \notin {"-", ACCESS_TOKEN}
        /\ OwnEntryConsidered)
       => OwnEntrySent]_vars

\* C6 as stated: after a failed delivery, with no request issued since, a
\* usage tick whose day has no delivery on record is sent when it is reported.
C6_RetryAfterFailure ==
    [][(/\ history.tsFailed
        /\ OwnEntryConsidered
        /\ \/ turnstileEvent_'.eventData.lastSuccess = 0
           \/ Day(turnstileEvent_'.eventData.lastSuccess) # Day(now))
       => OwnEntrySent]_vars

\* the queue entries a handler step took from the queue, in the order taken
MapLoadTaken(log) == [k \in 1..Len(log) |-> [id |-> log[k].id, timestamp |-> log[k].timestamp]]
TurnstileTaken(log) == [k \in 1..Len(log) |-> log[k].timestamp]

\* queue is what taken followed by queue2 starts with, and at most one entry
\* has been added behind it
TakenFromFront(queue, taken, queue2) ==
    /\ Len(taken) + Len(queue2) \in {Len(queue), Len(queue) + 1}
    /\ SubSeq(taken \o queue2, 1, Len(queue)) = queue

\* a step considers entries only when no request is outstanding, or in the
\* completion callback of the one outstanding request; a request ends the step
AfterCompletion(op, done, log, posts) ==
    /\ log # <<>> => \/ posts = <<>>
                     \/ op = done /\ Len(posts) = 1
    /\ \A k \in 1..Len(log) - 1 : log[k].decision # "sent"

\* C7: each dispatcher takes its entries from the front of the queue, in the
\* order they were reported; it considers an entry only when no request is
\* outstanding or in the completion callback of the outstanding request, and
\* writes the storage only in that callback.
C7_FifoOneAtATime ==
    [][/\ last'.op \in MapLoadHandlers =>
              /\ TakenFromFront(mapLoadEvent_.queue, MapLoadTaken(last'.log),
                                mapLoadEvent_'.queue)
              /\ AfterCompletion(last'.op, "mapLoadDone", last'.log, mapLoadPosts)
       /\ last'.op \in TurnstileHandlers =>
              /\ TakenFromFront(turnstileEvent_.queue, TurnstileTaken(last'.log),
                                turnstileEvent_'.queue)
              /\ AfterCompletion(last'.op, "turnstileDone", last'.log, turnstilePosts)
       /\ localStorage' # localStorage =>
              last'.op \in {"mapLoadDone", "turnstileDone"} /\ ~last'.error]_vars

\* two entries waited behind a request; its completion callback took the
\* first of them and left the second in the queue
C7_Witness ==
    /\ last.op = "mapLoadDone"
    /\ ~last.error
    /\ Len(last.log) = 1
    /\ last.log[1].id = 0
    /\ last.log[1].decision = "sent"
    /\ Len(mapLoadEvent_.queue) = 1
    /\ mapLoadEvent_.queue[1].id = 1

\* C8: a report made without an access token, or with no first-party HTTP
\* locator among its tileUrls, changes neither dispatcher, nor the storage,
\* nor the requests with the transport; any other report appends one entry
\* with the current time and calls processRequests.
C8_ReportEligibility ==
    [][last'.op \in Reports =>
          IF ACCESS_TOKEN = NoToken \/ last'.tileUrls \notin FirstPartyInputs
          THEN /\ UNCHANGED <<mapLoadEvent_, turnstileEvent_, localStorage,
                              mapLoadPosts, turnstilePosts>>
               /\ last'.log = <<>>
               /\ ~last'.threw
          ELSE /\ last'.op = "postMapLoadEvent" =>
                     /\ Len(last'.log) + Len(mapLoadEvent_'.queue)
                            = Len(mapLoadEvent_.queue) + 1
                     /\ (MapLoadTaken(last'.log) \o mapLoadEvent_'.queue)
                            [Len(mapLoadEvent_.queue) + 1].timestamp = now
                     /\ ~mapLoadEvent_.pendingRequest => last'.log # <<>>
               /\ last'.op = "postTurnstileEvent" =>
                     /\ Len(last'.log) + Len(turnstileEvent_'.queue)
                            = Len(turnstileEvent_.queue) + 1
                     /\ (TurnstileTaken(last'.log) \o turnstileEvent_'.queue)
                            [Len(turnstileEvent_.queue) + 1] = now
                     /\ ~turnstileEvent_.pendingRequest =>
                            last'.log # <<>> \/ last'.threw]_vars

\* a report whose tileUrls name a first-party HTTP locator was made with no
\* access token configured, and nothing was queued or sent
C8_Witness ==
    /\ last.op \in Reports
    /\ ACCESS_TOKEN = NoToken
    /\ last.tileUrls \in FirstPartyInputs
    /\ mapLoadEvent_.queue = <<>>
    /\ turnstileEvent_.queue = <<>>
    /\ mapLoadPosts = <<>>
    /\ turnstilePosts = <<>>

\* what fetchEventData of a dispatcher would load from the storage
Loads(self, storage) == fetchEventData(self.eventData, storage, storageAvailable)

\* C11 as stated: a handler of one dispatcher never changes the value that
\* the other dispatcher loads from the storage.
C11_StorageKeptApart ==
    [][/\ last'.op \in MapLoadHandlers =>
              Loads(turnstileEvent_, localStorage') = Loads(turnstileEvent_, localStorage)
       /\ last'.op \in TurnstileHandlers =>
              Loads(mapLoadEvent_, localStorage') = Loads(mapLoadEvent_, localStorage)]_vars

\* a step that called makeAPIURL
MakeAPIURLCalled == urlCall'.op = "makeAPIURL" /\ ACCESS_TOKEN' = ACCESS_TOKEN

\* the url carries an access_token parameter
HasAccessToken(url) == \E k \in 1..Len(url) : url[k] = "access_token="

\* C12 as stated: makeAPIURL fails with the secret-token error whenever the
\* accessToken argument or config.ACCESS_TOKEN starts with 's', whatever
\* config.REQUIRE_ACCESS_TOKEN is.
C12_SecretTokenAlwaysFails ==
    [][(/\ MakeAPIURLCalled
        /\ CharAt0(urlCall'.accessToken) = "s" \/ CharAt0(ACCESS_TOKEN) = "s")
       => /\ urlCall'.result.error = "Use a public access token"
          /\ urlCall'.result.url = <<>>]_vars

\* C12, amended: with config.REQUIRE_ACCESS_TOKEN set, makeAPIURL fails with
\* the secret-token error and returns no url when the token it uses (the
\* accessToken argument, or config.ACCESS_TOKEN when there is none) starts
\* with 's'; with config.REQUIRE_ACCESS_TOKEN not set it returns the url,
\* without an access_token parameter, whatever the tokens are.
C12_SecretTokenFailsWhenRequired ==
    [][MakeAPIURLCalled =>
          LET token == IF urlCall'.accessToken = NoToken
                       THEN ACCESS_TOKEN
                       ELSE urlCall'.accessToken
          IN
          /\ (urlCall'.REQUIRE_ACCESS_TOKEN /\ CharAt0(token) = "s") =>
                 /\ urlCall'.result.error = "Use a public access token"
                 /\ urlCall'.result.url = <<>>
          /\ ~urlCall'.REQUIRE_ACCESS_TOKEN =>
                 /\ urlCall'.result.error = ""
                 /\ urlCall'.result.url # <<>>
                 /\ ~HasAccessToken(urlCall'.result.url)]_vars

\* makeAPIURL was called without a token argument while the configured token
\* is a secret one and a token is required, and failed
C12_Witness ==
    /\ urlCall.op = "makeAPIURL"
    /\ urlCall.REQUIRE_ACCESS_TOKEN
    /\ urlCall.accessToken = NoToken
    /\ ACCESS_TOKEN = SecretToken
    /\ urlCall.result.error = "Use a public access token"

\* C13 as stated: formatUrl(parseUrl(L)) is L for every L that parseUrl
\* accepts.
C13_RoundTrip ==
    (urlCall.op = "formatUrl" /\ urlCall.result.error = "") =>
        urlCall.result.url = urlCall.input

\* the urls with something after the "/" of the path and with no "?" or
\* something after it
RoundTripInputs ==
    {<<"http", ":", "/", "/">> \o a \o p \o q :
        a \in UrlAuthorities,
        p \in {p \in UrlPaths : Len(p) >= 2},
        q \in {q \in UrlQueries : Len(q) # 1}}

\* C13, amended: formatUrl(parseUrl(L)) is L for every L whose path has at
\* least one character after its "/" and whose query is absent or not empty.
C13_RoundTripWithPath ==
    (urlCall.op = "formatUrl" /\ urlCall.input \in RoundTripInputs) =>
        /\ urlCall.result.error = ""
        /\ urlCall.result.url = urlCall.input

\* a url with a path and two query parameters came back unchanged
C13_Witness ==
    /\ urlCall.op = "formatUrl"
    /\ urlCall.input = <<"http", ":", "/", "/", "a", ".", "com",
                         "/", "p", "/", "q", ".", "png", "?", "x", "&", "y">>
    /\ urlCall.result.url = urlCall.input

\* C14 as stated: an entry considered while eventData holds no lastSuccess
\* is sent.
C14_DueWithoutLastSuccess ==
    [][(/\ last'.op \in TurnstileHandlers
        /\ turnstileEvent_'.eventData.obj
        /\ turnstileEvent_'.eventData.lastSuccess = 0)
       => \A k \in 1..Len(last'.log) : last'.log[k].decision = "sent"]_vars

\* C15: a completion callback called with an error clears pendingRequest and
\* changes nothing else: the queue, success, eventData and the storage stay
\* as they were, no entry is considered and no request is issued.
C15_FailureOnlyClearsSlot ==
    [][/\ (last'.op = "mapLoadDone" /\ last'.error) =>
              /\ mapLoadEvent_' = [mapLoadEvent_ EXCEPT !.pendingRequest = FALSE]
              /\ mapLoadPosts' = <<>>
              /\ localStorage' = localStorage
              /\ last'.log = <<>>
       /\ (last'.op = "turnstileDone" /\ last'.error) =>
              /\ turnstileEvent_' = [turnstileEvent_ EXCEPT !.pendingRequest = FALSE]
              /\ turnstilePosts' = <<>>
              /\ localStorage' = localStorage
              /\ last'.log = <<>>]_vars

\* a delivery failed while entries were queued behind it: they are still
\* queued and nothing is in flight
C15_Witness ==
    /\ last.op = "mapLoadDone"
    /\ last.error
    /\ Len(mapLoadEvent_.queue) = 2
    /\ ~mapLoadEvent_.pendingRequest
    /\ mapLoadPosts = <<>>

\* C16: the storage is written only in the completion callback of a
\* successful delivery; after that callback, with localStorage available, the
\* value under the key of config.ACCESS_TOKEN is the dispatcher's eventData;
\* a report, a skipped or duplicate entry and a failed delivery write nothing.
C16_SavedOnSuccessOnly ==
    [][/\ localStorage' # localStorage =>
              last'.op \in {"mapLoadDone", "turnstileDone"} /\ ~last'.error
       /\ (last'.op = "mapLoadDone" /\ ~last'.error /\ storageAvailable) =>
              /\ localStorage'[ACCESS_TOKEN] = JSONstringify(mapLoadEvent_'.eventData)
              /\ \A t \in Tokens \ {ACCESS_TOKEN} : localStorage'[t] = localStorage[t]
       /\ (last'.op = "turnstileDone" /\ ~last'.error /\ storageAvailable) =>
              /\ localStorage'[ACCESS_TOKEN] = JSONstringify(turnstileEvent_'.eventData)
              /\ \A t \in Tokens \ {ACCESS_TOKEN} : localStorage'[t] = localStorage[t]
       /\ ~storageAvailable => localStorage' = localStorage]_vars

\* a usage delivery succeeded and its time is in the storage, which held
\* nothing before
C16_Witness ==
    /\ last.op = "turnstileDone"
    /\ ~last.error
    /\ storageAvailable
    /\ turnstileEvent_.eventData.lastSuccess # 0
    /\ localStorage[ACCESS_TOKEN] = JSONstringify(turnstileEvent_.eventData)
    /\ \E k \in 1..Len(last.log) : last.log[k].decision = "skipped"

\* C17: when the entry MapLoadEvent.processRequests takes from the queue has
\* its id marked in success, the entry is removed, no request is issued,
\* pendingRequest stays empty and no further entry is considered: the entries
\* behind it stay queued.
C17_DuplicateStops ==
    [][(/\ last'.op \in MapLoadHandlers
        /\ last'.log # <<>>
        /\ mapLoadEvent_'.success[last'.log[1].id])
       => /\ Decisions(last'.log) = <<"duplicate">>
          /\ mapLoadPosts' = <<>>
          /\ ~mapLoadEvent_'.pendingRequest
          /\ IF last'.op = "mapLoadDone"
             THEN mapLoadEvent_'.queue = Tail(mapLoadEvent_.queue)
             ELSE /\ Len(mapLoadEvent_'.queue) = Len(mapLoadEvent_.queue)
                  /\ mapLoadEvent_.queue # <<>> =>
                         SubSeq(mapLoadEvent_'.queue, 1, Len(mapLoadEvent_.queue) - 1)
                             = Tail(mapLoadEvent_.queue)]_vars

\* the completion callback for map 1 found a second entry for map 1 and one
\* for map 0 queued: the first was dropped and the second is still queued,
\* with nothing in flight
C17_Witness ==
    /\ last.op = "mapLoadDone"
    /\ Decisions(last.log) = <<"duplicate">>
    /\ last.log[1].id = 1
    /\ Len(mapLoadEvent_.queue) = 1
    /\ mapLoadEvent_.queue[1].id = 0
    /\ mapLoadPosts = <<>>
    /\ ~mapLoadEvent_.pendingRequest

\* a step in which TurnstileEvent.processRequests was called and returned
TurnstileProcessed ==
    /\ ~last'.threw
    /\ \/ last'.op = "turnstileDone" /\ ~last'.error
       \/ /\ last'.op = "postTurnstileEvent"
          /\ ACCESS_TOKEN # NoToken
          /\ last'.tileUrls \in FirstPartyInputs

\* C18: when TurnstileEvent.processRequests returns, a request is in flight
\* or the queue is empty; every entry it considered before the last was
\* skipped, and an entry skipped last leaves the queue empty.
C18_DrainOnSkip ==
    [][TurnstileProcessed =>
          /\ turnstileEvent_'.pendingRequest \/ turnstileEvent_'.queue = <<>>
          /\ \A k \in 1..Len(last'.log) - 1 : last'.log[k].decision = "skipped"
          /\ (last'.log # <<>> /\ last'.log[Len(last'.log)].decision = "skipped") =>
                 turnstileEvent_'.queue = <<>> /\ turnstilePosts' = <<>>]_vars

\* after a successful delivery the two entries queued behind it, both of the
\* same day, were removed in the completion callback
C18_Witness ==
    /\ last.op = "turnstileDone"
    /\ ~last.error
    /\ Decisions(last.log) = <<"skipped", "skipped">>
    /\ turnstileEvent_.queue = <<>>
    /\ ~turnstileEvent_.pendingRequest

\* C19: once mapLoadEvent_ holds a valid anonId its eventData changes no
\* more, whatever is written to the storage, and every request it has with
\* the transport carries that anonId.
C19_OneAnonIdPerPage ==
    [][/\ validateUuid(mapLoadEvent_.eventData.anonId) =>
              mapLoadEvent_'.eventData = mapLoadEvent_.eventData
       /\ \A i \in 1..Len(mapLoadPosts') :
              mapLoadPosts'[i].userId = mapLoadEvent_'.eventData.anonId]_vars

\* a map load was reported and sent with the anonId held in memory while the
\* storage, written by turnstileEvent_ under the current token, holds another
C19_Witness ==
    /\ last.op = "postMapLoadEvent"
    /\ mapLoadPosts # <<>>
    /\ mapLoadPosts[1].userId = 1
    /\ mapLoadEvent_.eventData.anonId = 1
    /\ localStorage[ACCESS_TOKEN].kind = "json"
    /\ localStorage[ACCESS_TOKEN].data.anonId = 2
    /\ localStorage[ACCESS_TOKEN].data.lastSuccess # 0

\* C20 as stated: after a successful usage delivery eventData.accessToken is
\* the access_token the request was sent with, and the state is stored under
\* the key of that token.
C20_RecordsTokenOfRequest ==
    [][(/\ last'.op = "turnstileDone"
        /\ ~last'.error
        /\ Len(turnstilePosts) = 1)
       => /\ turnstileEvent_'.eventData.accessToken = turnstilePosts[1].access_token
          /\ storageAvailable =>
                 localStorage'[turnstilePosts[1].access_token]
                     = JSONstringify(turnstileEvent_'.eventData)]_vars

====
